---- MODULE Spec2Model ----
(***************************************************************************)
(* A model of src/bin/nats.rs: credential resolution, connection set-up    *)
(* and the "ensure" helpers that provision streams and a key-value bucket  *)
(* on a NATS JetStream broker.                                             *)
(*                                                                         *)
(* Two specifications share the module:                                    *)
(*   SpecConn  one call of get_client_and_context against a filesystem,    *)
(*             followed by the authentication handshakes of the transport; *)
(*   SpecProv  concurrent callers of the four ensure helpers against one   *)
(*             broker.                                                     *)
(* A string is a sequence of characters; a character is a one-element      *)
(* TLA+ string, except "U+00E9", which stands for a character whose UTF-8  *)
(* encoding takes two bytes.                                               *)
(***************************************************************************)
EXTENDS Integers, Sequences, FiniteSets, TLC

VARIABLES
    fs,            \* the filesystem: path -> entry
    pc,            \* position of the get_client_and_context call
    args,          \* its arguments
    built,         \* the outcome of build_nats_options, once evaluated
    fsOps,         \* every filesystem operation performed so far, in order
    connLog,       \* every connection attempt made so far, in order
    result,        \* what get_client_and_context returned
    kp,            \* the Arc<KeyPair> captured by the signing closure
    inflight,      \* signing futures in flight: id -> [nonce, key]
    signLog,       \* completed signatures, in order
    handshakes,    \* number of closure invocations so far
    streams,       \* broker: stream name -> resource
    buckets,       \* broker: bucket name -> resource
    nextId,        \* broker: identity given to the next created resource
    cpc,           \* per caller: position of its ensure call
    call,          \* per caller: the ensure call it is running
    ret,           \* per caller: what the ensure call returned
    calls          \* per caller: number of ensure calls started

connVars == <<fs, pc, args, built, fsOps, connLog, result, kp, inflight, signLog, handshakes>>
provVars == <<streams, buckets, nextId, cpc, call, ret, calls>>
vars == <<fs, pc, args, built, fsOps, connLog, result, kp, inflight, signLog, handshakes,
          streams, buckets, nextId, cpc, call, ret, calls>>

(***************************************************************************)
(* Strings                                                                 *)
(***************************************************************************)
Rep(c, n) == [i \in 1..n |-> c]

\* Bytes one character takes in UTF-8.
Utf8Width(c) == IF c = "U+00E9" THEN 2 ELSE 1

RECURSIVE StrLen(_)
\* String::len: the length in bytes, not in characters.
StrLen(s) == IF s = <<>> THEN 0 ELSE Utf8Width(Head(s)) + StrLen(Tail(s))

\* The number of characters (s.chars().count()).
CharCount(s) == Len(s)

starts_with(s, c) == Len(s) > 0 /\ s[1] = c

\* MAGIC NUMBER: Length of a seed key
SeedLen == 58

(***************************************************************************)
(* Option values                                                           *)
(***************************************************************************)
None == [some |-> FALSE, val |-> <<>>]
Some(v) == [some |-> TRUE, val |-> v]
is_none(o) == ~o.some
is_some(o) == o.some

(***************************************************************************)
(* Inputs                                                                  *)
(***************************************************************************)
\* 58 characters, 58 bytes, starts with 'S', a valid seed encoding.
LitSeed == <<"S", "U">> \o Rep("A", SeedLen - 2)
\* 58 characters, 58 bytes, starts with 'S', not a valid seed encoding.
BadSeed == <<"S", "U">> \o Rep("B", SeedLen - 2)
\* 58 characters starting with 'S', 59 bytes.
WideSeed == <<"S">> \o Rep("A", SeedLen - 2) \o <<"U+00E9">>
\* 57 characters starting with 'S', 58 bytes.
NarrowSeed == <<"S">> \o Rep("A", SeedLen - 3) \o <<"U+00E9">>
\* 58 characters, 58 bytes, does not start with 'S'.
NoSSeed == Rep("A", SeedLen)
\* 59 characters, 59 bytes, starts with 'S'.
LongSeed == <<"S">> \o Rep("A", SeedLen)
\* A path.
PathP == <<".", "/", "p">>
\* A literal JWT and the JWT a file may hold.
JwtLit == <<"e", "y", "J">>
JwtInFile == <<"a", ".", "b">>

SeedInputs == {LitSeed, BadSeed, WideSeed, NarrowSeed, NoSSeed, LongSeed, PathP}
JwtInputs == {JwtLit, PathP}
CredsInputs == {PathP}
DomainInputs == {<<"d">>}
Url == <<"n", "a", "t", "s">>

Opt(S) == {None} \cup {Some(v) : v \in S}

(***************************************************************************)
(* The filesystem                                                          *)
(***************************************************************************)
Paths == {PathP, JwtLit, LitSeed, WideSeed}

NoEntry == [kind |-> "none", readable |-> FALSE, contents |-> <<>>]
Dir == [kind |-> "dir", readable |-> TRUE, contents |-> <<>>]
File(c) == [kind |-> "file", readable |-> TRUE, contents |-> c]
Unreadable == [kind |-> "file", readable |-> FALSE, contents |-> <<>>]

\* The filesystems a call may run against.
Filesystems ==
    { [p \in Paths |->
          CASE p = PathP -> e1
            [] p = JwtLit -> e2
            [] p = LitSeed -> e3
            [] OTHER -> e4] :
        e1 \in {NoEntry, Dir, Unreadable, File(JwtInFile), File(LitSeed)},
        e2 \in {NoEntry, File(JwtInFile)},
        e3 \in {NoEntry, File(BadSeed)},
        e4 \in {NoEntry, File(LitSeed)} }

Entry(f, p) == IF p \in DOMAIN f THEN f[p] ELSE NoEntry

MetaOp(p) == [op |-> "metadata", path |-> p]
ReadOp(p) == [op |-> "read", path |-> p]

\* tokio::fs::metadata(p).map(|m| m.is_file()).unwrap_or(false)
is_file(f, p) == Entry(f, p).kind = "file"

\* tokio::fs::read_to_string
read_to_string(f, p) ==
    LET e == Entry(f, p) IN
    IF e.kind = "file" /\ e.readable
    THEN [ok |-> TRUE, val |-> e.contents]
    ELSE [ok |-> FALSE, val |-> <<>>]

(***************************************************************************)
(* CredentialResolver                                                      *)
(***************************************************************************)
\* The seed encodings nkeys accepts.
ValidSeeds == {LitSeed}

NoKey == [seed |-> <<>>]

\* nkeys::KeyPair::from_seed
from_seed(raw) ==
    IF raw \in ValidSeeds
    THEN [ok |-> TRUE, val |-> [seed |-> raw]]
    ELSE [ok |-> FALSE, val |-> NoKey]

\* get_seed with the length counted in characters instead of bytes.
get_seed_chars(f, seed) ==
    IF CharCount(seed) = SeedLen /\ starts_with(seed, "S")
    THEN LET k == from_seed(seed) IN [ok |-> k.ok, val |-> k.val, ops |-> <<>>]
    ELSE LET r == read_to_string(f, seed) IN
         IF ~r.ok
         THEN [ok |-> FALSE, val |-> NoKey, ops |-> <<ReadOp(seed)>>]
         ELSE LET k == from_seed(r.val) IN
              [ok |-> k.ok, val |-> k.val, ops |-> <<ReadOp(seed)>>]

\* get_seed that always reads its input as a path.
get_seed_always_reads(f, seed) ==
    LET r == read_to_string(f, seed) IN
    IF ~r.ok
    THEN [ok |-> FALSE, val |-> NoKey, ops |-> <<ReadOp(seed)>>]
    ELSE LET k == from_seed(r.val) IN
         [ok |-> k.ok, val |-> k.val, ops |-> <<ReadOp(seed)>>]

get_seed(f, seed) ==
    IF StrLen(seed) = SeedLen /\ starts_with(seed, "S")
    THEN LET k == from_seed(seed) IN [ok |-> k.ok, val |-> k.val, ops |-> <<>>]
    ELSE LET r == read_to_string(f, seed) IN
         IF ~r.ok
         THEN [ok |-> FALSE, val |-> NoKey, ops |-> <<ReadOp(seed)>>]
         ELSE LET k == from_seed(r.val) IN
              [ok |-> k.ok, val |-> k.val, ops |-> <<ReadOp(seed)>>]

\* resolve_jwt that tests for existence (metadata succeeded) instead of is_file.
resolve_jwt_exists(f, jwt_or_file) ==
    IF Entry(f, jwt_or_file).kind # "none"
    THEN LET r == read_to_string(f, jwt_or_file) IN
         [ok |-> r.ok, val |-> r.val,
          ops |-> <<MetaOp(jwt_or_file), ReadOp(jwt_or_file)>>]
    ELSE [ok |-> TRUE, val |-> jwt_or_file, ops |-> <<MetaOp(jwt_or_file)>>]

resolve_jwt(f, jwt_or_file) ==
    IF is_file(f, jwt_or_file)
    THEN LET r == read_to_string(f, jwt_or_file) IN
         [ok |-> r.ok, val |-> r.val,
          ops |-> <<MetaOp(jwt_or_file), ReadOp(jwt_or_file)>>]
    ELSE [ok |-> TRUE, val |-> jwt_or_file, ops |-> <<MetaOp(jwt_or_file)>>]

\* async_nats::ConnectOptions::with_credentials_file: the transport reads the file.
with_credentials_file(f, creds) ==
    LET r == read_to_string(f, creds) IN
    [ok |-> r.ok, val |-> r.val, ops |-> <<ReadOp(creds)>>]

NoOpts == [mode |-> "none", jwt |-> <<>>, key |-> NoKey, path |-> <<>>, creds |-> <<>>]
JwtOpts(jwt, key) ==
    [mode |-> "SeedAndJwt", jwt |-> jwt, key |-> key, path |-> <<>>, creds |-> <<>>]
CredsOpts(path, text) ==
    [mode |-> "CredentialsFile", jwt |-> <<>>, key |-> NoKey, path |-> path, creds |-> text]

JwtNotRun == [ok |-> FALSE, val |-> <<>>, ops |-> <<>>]
SeedNotRun == [ok |-> FALSE, val |-> NoKey, ops |-> <<>>]

\* An Err(..) of build_nats_options: no options; j and k are what resolve_jwt and
\* get_seed returned, when they ran (seedCalls counts the calls of get_seed).
Failed(ops, j, k, seedCalls) ==
    [ok |-> FALSE, opts |-> NoOpts, ops |-> ops, jwtRes |-> j, seedRes |-> k,
     seedCalls |-> seedCalls]

\* The (Some(seed), Some(jwt), None) arm.
seed_and_jwt(f, seed, jwt) ==
    LET j == resolve_jwt(f, jwt) IN
    IF ~j.ok THEN Failed(j.ops, j, SeedNotRun, 0)
    ELSE LET k == get_seed(f, seed) IN
         IF ~k.ok THEN Failed(j.ops \o k.ops, j, k, 1)
         ELSE [ok |-> TRUE, opts |-> JwtOpts(j.val, k.val), ops |-> j.ops \o k.ops,
               jwtRes |-> j, seedRes |-> k, seedCalls |-> 1]

\* The (None, None, Some(creds)) arm.
creds_file(f, creds) ==
    LET c == with_credentials_file(f, creds) IN
    IF ~c.ok THEN Failed(c.ops, JwtNotRun, SeedNotRun, 0)
    ELSE [ok |-> TRUE, opts |-> CredsOpts(creds, c.val), ops |-> c.ops,
          jwtRes |-> JwtNotRun, seedRes |-> SeedNotRun, seedCalls |-> 0]

\* build_nats_options that ignores a creds path given together with seed and jwt.
build_nats_options_lenient(f, seed, jwt, creds) ==
    CASE is_some(seed) /\ is_some(jwt) -> seed_and_jwt(f, seed.val, jwt.val)
      [] is_none(seed) /\ is_none(jwt) /\ is_some(creds) -> creds_file(f, creds.val)
      [] OTHER -> Failed(<<>>, JwtNotRun, SeedNotRun, 0)

build_nats_options(f, seed, jwt, creds) ==
    CASE is_some(seed) /\ is_some(jwt) /\ is_none(creds) ->
             seed_and_jwt(f, seed.val, jwt.val)
      [] is_none(seed) /\ is_none(jwt) /\ is_some(creds) -> creds_file(f, creds.val)
      [] OTHER -> Failed(<<>>, JwtNotRun, SeedNotRun, 0)

(***************************************************************************)
(* ConnectionFactory: get_client_and_context                               *)
(***************************************************************************)
\* Closure invocations and concurrent signing futures the transport makes.
MaxHandshakes == 3
MaxInflight == 2
Nonces == {"n1", "n2"}

NotBuilt ==
    [done |-> FALSE, ok |-> FALSE, opts |-> NoOpts, ops |-> <<>>, jwtRes |-> JwtNotRun,
     seedRes |-> SeedNotRun, seedCalls |-> 0]
Built(r) ==
    [done |-> TRUE, ok |-> r.ok, opts |-> r.opts, ops |-> r.ops, jwtRes |-> r.jwtRes,
     seedRes |-> r.seedRes, seedCalls |-> r.seedCalls]

NoArgs == [url |-> <<>>, js_domain |-> None, seed |-> None, jwt |-> None, creds_path |-> None]
NoContext == [client |-> <<>>, domain |-> None]
NoResult == [status |-> "none", client |-> <<>>, context |-> NoContext]
ErrResult == [status |-> "err", client |-> <<>>, context |-> NoContext]
NoArc == [key |-> NoKey, strong |-> 0]

\* seed.is_none() && jwt.is_none() && creds_path.is_none(), with || for &&.
no_auth_any(a) == is_none(a.seed) \/ is_none(a.jwt) \/ is_none(a.creds_path)

\* seed.is_none() && jwt.is_none() && creds_path.is_none()
no_auth(a) == is_none(a.seed) /\ is_none(a.jwt) /\ is_none(a.creds_path)

\* The signing closure that gives its key away: the first invocation takes it.
closure_call_moves(arc) == [arc |-> NoArc, key_pair |-> arc.key]

\* let key_pair = kp.clone(): one more strong reference to the same key.
closure_call(arc) == [arc |-> [arc EXCEPT !.strong = @ + 1], key_pair |-> arc.key]

\* The signing future completes: key_pair.sign(&nonce), then key_pair is dropped.
closure_done(arc) == [arc EXCEPT !.strong = IF @ > 0 THEN @ - 1 ELSE 0]

\* get_client_and_context is called.
Call(d, s, j, c) ==
    /\ pc = "idle"
    /\ args' = [url |-> Url, js_domain |-> d, seed |-> s, jwt |-> j, creds_path |-> c]
    /\ pc' = "called"
    /\ UNCHANGED <<fs, built, fsOps, connLog, result, kp, inflight, signLog, handshakes>>
    /\ UNCHANGED provVars

\* async_nats::connect(url): a connection attempt without authentication.
ConnectAnonymous ==
    /\ pc = "called"
    /\ no_auth(args)
    /\ connLog' = Append(connLog, [url |-> args.url, auth |-> NoOpts])
    /\ pc' = "connecting"
    /\ UNCHANGED <<fs, args, built, fsOps, result, kp, inflight, signLog, handshakes>>
    /\ UNCHANGED provVars

\* build_nats_options(seed, jwt, creds_path).await? : on Err the call returns it.
BuildOptions ==
    /\ pc = "called"
    /\ ~no_auth(args)
    /\ LET r == build_nats_options(fs, args.seed, args.jwt, args.creds_path) IN
       /\ built' = Built(r)
       /\ fsOps' = fsOps \o r.ops
       /\ IF r.ok
          THEN /\ pc' = "built"
               /\ result' = result
               /\ kp' = IF r.opts.mode = "SeedAndJwt"
                        THEN [key |-> r.opts.key, strong |-> 1]
                        ELSE kp
          ELSE /\ pc' = "failed"
               /\ result' = ErrResult
               /\ kp' = kp
    /\ UNCHANGED <<fs, args, connLog, inflight, signLog, handshakes>>
    /\ UNCHANGED provVars

\* async_nats::connect_with_options(url, opts): a connection attempt with the options.
ConnectWithOptions ==
    /\ pc = "built"
    /\ connLog' = Append(connLog, [url |-> args.url, auth |-> built.opts])
    /\ pc' = "connecting"
    /\ UNCHANGED <<fs, args, built, fsOps, result, kp, inflight, signLog, handshakes>>
    /\ UNCHANGED provVars

\* The transport starts an authentication handshake (the first connect or a
\* reconnect): the broker sends a nonce and the closure is invoked with it.
SignBegin(nonce) ==
    /\ pc \in {"connecting", "connected", "done"}
    /\ built.ok /\ built.opts.mode = "SeedAndJwt"
    /\ handshakes < MaxHandshakes
    /\ Cardinality(inflight) < MaxInflight
    /\ LET c == closure_call(kp) IN
       /\ kp' = c.arc
       /\ inflight' = inflight \cup
              {[id |-> handshakes + 1, nonce |-> nonce, key |-> c.key_pair]}
    /\ handshakes' = handshakes + 1
    /\ UNCHANGED <<fs, pc, args, built, fsOps, connLog, result, signLog>>
    /\ UNCHANGED provVars

\* A signing future completes.
SignEnd(h) ==
    /\ h \in inflight
    /\ signLog' = Append(signLog, [nonce |-> h.nonce, key |-> h.key])
    /\ inflight' = inflight \ {h}
    /\ kp' = closure_done(kp)
    /\ UNCHANGED <<fs, pc, args, built, fsOps, connLog, result, handshakes>>
    /\ UNCHANGED provVars

\* The connection is established.
ConnectOk ==
    /\ pc = "connecting"
    /\ pc' = "connected"
    /\ UNCHANGED <<fs, args, built, fsOps, connLog, result, kp, inflight, signLog, handshakes>>
    /\ UNCHANGED provVars

\* The connection attempt fails (transport failure, authentication rejected): `?`.
ConnectFail ==
    /\ pc = "connecting"
    /\ inflight = {}
    /\ pc' = "failed"
    /\ result' = ErrResult
    /\ UNCHANGED <<fs, args, built, fsOps, connLog, kp, inflight, signLog, handshakes>>
    /\ UNCHANGED provVars

\* jetstream::with_domain(client, domain) or jetstream::new(client); Ok((client, context)).
MakeContext ==
    /\ pc = "connected"
    /\ pc' = "done"
    /\ result' = [status |-> "ok", client |-> args.url,
                  context |-> [client |-> args.url, domain |-> args.js_domain]]
    /\ UNCHANGED <<fs, args, built, fsOps, connLog, kp, inflight, signLog, handshakes>>
    /\ UNCHANGED provVars

(***************************************************************************)
(* StreamProvisioner and KVProvisioner                                     *)
(***************************************************************************)
\* Ensure calls started in one run.
MaxCalls == 3

Callers == {"c1", "c2"}
Names == {"links"}
SubjectInputs == {<<"wadm.evt.*">>, <<"wadm.status.>">>}
DescriptionInputs == Opt({<<"d">>})
HistoryInputs == {5, 20}

\* wadm::DEFAULT_EXPIRY_TIME, a fixed non-zero duration.
DEFAULT_EXPIRY_TIME == "DEFAULT_EXPIRY_TIME"
\* std::time::Duration::from_nanos(0)
ZeroDuration == "0ns"

\* StreamConfig::default(): the fields the helpers override or rely on.
StreamConfigDefault ==
    [name |-> "", description |-> None, num_replicas |-> 0, retention |-> "Limits",
     subjects |-> <<>>, max_age |-> ZeroDuration, storage |-> "File",
     allow_rollup |-> FALSE, allow_direct |-> FALSE, max_messages_per_subject |-> 0]

\* The StreamConfig of ensure_stream.
ensure_stream_config(name, subjects, description) ==
    [StreamConfigDefault EXCEPT
        !.name = name,
        !.description = description,
        !.num_replicas = 1,
        !.retention = "WorkQueue",
        !.subjects = subjects,
        !.max_age = DEFAULT_EXPIRY_TIME,
        !.storage = "File",
        !.allow_rollup = FALSE]

StatusDescription == Some(<<"A stream that stores all status updates for wadm applications">>)
NotifyDescription == Some(<<"A stream for capturing all notification events for wadm">>)

\* The status stream given the default expiry of the other two streams.
ensure_status_stream_config_expiring(name, subjects) ==
    [StreamConfigDefault EXCEPT
        !.name = name,
        !.description = StatusDescription,
        !.num_replicas = 1,
        !.allow_direct = TRUE,
        !.retention = "Limits",
        !.max_messages_per_subject = 10,
        !.subjects = subjects,
        !.max_age = DEFAULT_EXPIRY_TIME,
        !.storage = "File"]

\* The StreamConfig of ensure_status_stream.
ensure_status_stream_config(name, subjects) ==
    [StreamConfigDefault EXCEPT
        !.name = name,
        !.description = StatusDescription,
        !.num_replicas = 1,
        !.allow_direct = TRUE,
        !.retention = "Limits",
        !.max_messages_per_subject = 10,
        !.subjects = subjects,
        !.max_age = ZeroDuration,
        !.storage = "File"]

\* The StreamConfig of ensure_notify_stream.
ensure_notify_stream_config(name, subjects) ==
    [StreamConfigDefault EXCEPT
        !.name = name,
        !.description = NotifyDescription,
        !.num_replicas = 1,
        !.retention = "Interest",
        !.subjects = subjects,
        !.max_age = DEFAULT_EXPIRY_TIME,
        !.storage = "File"]

\* The KvConfig of ensure_kv_bucket.
ensure_kv_bucket_config(name, history_to_keep) ==
    [bucket |-> name, history |-> history_to_keep, num_replicas |-> 1, storage |-> "File"]

StreamOps == {"ensure_stream", "ensure_status_stream", "ensure_notify_stream"}

NoCall ==
    [op |-> "none", name |-> "", subjects |-> <<>>, description |-> None, history |-> 0,
     seq |-> 0, fetches |-> 0, creates |-> 0, created |-> FALSE, rejected |-> FALSE, existedAt |-> 0]
NoHandle == [kind |-> "none", name |-> "", id |-> 0]
NoRet == [status |-> "none", handle |-> NoHandle]
ErrRet == [status |-> "err", handle |-> NoHandle]
OkRet(kind, name, id) == [status |-> "ok", handle |-> [kind |-> kind, name |-> name, id |-> id]]

\* The configuration a call asks the broker to create.
ConfigOf(c) ==
    CASE c.op = "ensure_stream" -> ensure_stream_config(c.name, c.subjects, c.description)
      [] c.op = "ensure_status_stream" -> ensure_status_stream_config(c.name, c.subjects)
      [] c.op = "ensure_notify_stream" -> ensure_notify_stream_config(c.name, c.subjects)
      [] OTHER -> ensure_kv_bucket_config(c.name, c.history)

KindOf(c) == IF c.op \in StreamOps THEN "stream" ELSE "kv"
\* The broker's resources of the kind a call is about.
Store(c) == IF c.op \in StreamOps THEN streams ELSE buckets
\* The identity of the resource named n in store st, 0 when there is none.
IdIn(st, n) == IF n \in DOMAIN st THEN st[n].id ELSE 0

\* An ensure helper that asks for the create whatever the fetch found.
after_fetch_always_creates(found) == "create"

\* An ensure helper with the branches of the fetch exchanged.
after_fetch_swapped(found) == IF found THEN "create" ELSE "return"

\* if let Ok(kv) = context.get_key_value(&name).await { Ok(kv) } else { create },
\* and get_or_create_stream likewise: return what the fetch found, else create.
after_fetch(found) == IF found THEN "return" ELSE "create"

\* An ensure helper that fetches again when its create is rejected.
after_create_refetches(accepted) == IF accepted THEN "ok" ELSE "refetch"

\* .await.map_err(|e| anyhow::anyhow!("{e:?}")): a rejected create is the call's error.
after_create(accepted) == IF accepted THEN "ok" ELSE "err"

\* A call starts; existedAt notes the resource of that name present at that moment.
Start(p, c) ==
    /\ calls < MaxCalls
    /\ calls' = calls + 1
    /\ call' = [call EXCEPT ![p] = [c EXCEPT !.seq = calls + 1,
                                              !.existedAt = IdIn(Store(c), c.name)]]
    /\ cpc' = [cpc EXCEPT ![p] = "fetching"]
    /\ ret' = [ret EXCEPT ![p] = NoRet]
    /\ UNCHANGED <<streams, buckets, nextId>>
    /\ UNCHANGED connVars

CallEnsureStream(p, name, subjects, description) ==
    /\ cpc[p] = "idle"
    /\ Start(p, [NoCall EXCEPT !.op = "ensure_stream", !.name = name,
                            !.subjects = subjects, !.description = description])

CallEnsureStatusStream(p, name, subjects) ==
    /\ cpc[p] = "idle"
    /\ Start(p, [NoCall EXCEPT !.op = "ensure_status_stream", !.name = name,
                            !.subjects = subjects])

CallEnsureNotifyStream(p, name, subjects) ==
    /\ cpc[p] = "idle"
    /\ Start(p, [NoCall EXCEPT !.op = "ensure_notify_stream", !.name = name,
                            !.subjects = subjects])

CallEnsureKvBucket(p, name, history_to_keep) ==
    /\ cpc[p] = "idle"
    /\ Start(p, [NoCall EXCEPT !.op = "ensure_kv_bucket", !.name = name,
                            !.history = history_to_keep])

\* The fetch (get_key_value, or the stream info request of get_or_create_stream)
\* is answered by the broker.
Fetch(p) ==
    /\ cpc[p] = "fetching"
    /\ LET c == call[p]
           found == c.name \in DOMAIN Store(c)
           c1 == [c EXCEPT !.fetches = @ + 1]
       IN
       /\ call' = [call EXCEPT ![p] = c1]
       /\ IF after_fetch(found) = "return"
          THEN /\ ret' = [ret EXCEPT ![p] = OkRet(KindOf(c), c.name, IdIn(Store(c), c.name))]
               /\ cpc' = [cpc EXCEPT ![p] = "returned"]
          ELSE /\ ret' = ret
               /\ cpc' = [cpc EXCEPT ![p] = "creating"]
    /\ UNCHANGED <<streams, buckets, nextId, calls>>
    /\ UNCHANGED connVars

\* The broker's answer to a create request: it creates an absent resource; for a
\* name in use it either rejects the request or answers with the resource as it is.
CreateOutcomes(c) == IF c.name \in DOMAIN Store(c) THEN {"exists", "rejected"} ELSE {"created"}

\* The create request (create_key_value, or create_stream) is answered by the broker.
Create(p) ==
    /\ cpc[p] = "creating"
    /\ \E outcome \in CreateOutcomes(call[p]) :
       LET c == call[p]
           res == [id |-> nextId, cfg |-> ConfigOf(c), op |-> c.op, by |-> c.seq,
                   req |-> [subjects |-> c.subjects, description |-> c.description,
                            history |-> c.history]]
           c1 == [c EXCEPT !.creates = @ + 1,
                           !.created = (outcome = "created"),
                           !.rejected = (outcome = "rejected")]
           next == after_create(outcome # "rejected")
       IN
       /\ call' = [call EXCEPT ![p] = c1]
       /\ streams' = IF outcome = "created" /\ KindOf(c) = "stream"
                     THEN streams @@ (c.name :> res) ELSE streams
       /\ buckets' = IF outcome = "created" /\ KindOf(c) = "kv"
                     THEN buckets @@ (c.name :> res) ELSE buckets
       /\ nextId' = IF outcome = "created" THEN nextId + 1 ELSE nextId
       /\ ret' = [ret EXCEPT ![p] =
                     CASE next = "ok" ->
                              OkRet(KindOf(c), c.name,
                                    IF outcome = "created" THEN nextId
                                    ELSE IdIn(Store(c), c.name))
                       [] next = "err" -> ErrRet
                       [] OTHER -> NoRet]
       /\ cpc' = [cpc EXCEPT ![p] = IF next = "refetch" THEN "fetching" ELSE "returned"]
    /\ UNCHANGED calls
    /\ UNCHANGED connVars

\* The caller takes the result; it may call again.
Return(p) ==
    /\ cpc[p] = "returned"
    /\ cpc' = [cpc EXCEPT ![p] = "idle"]
    /\ call' = [call EXCEPT ![p] = NoCall]
    /\ ret' = [ret EXCEPT ![p] = NoRet]
    /\ UNCHANGED <<streams, buckets, nextId, calls>>
    /\ UNCHANGED connVars

(***************************************************************************)
(* Specifications                                                          *)
(***************************************************************************)
\* No ensure call is running and the broker holds nothing.
ProvIdle ==
    /\ streams = <<>>
    /\ buckets = <<>>
    /\ nextId = 1
    /\ cpc = [p \in Callers |-> "idle"]
    /\ call = [p \in Callers |-> NoCall]
    /\ ret = [p \in Callers |-> NoRet]
    /\ calls = 0

\* get_client_and_context has not been called.
ConnIdle ==
    /\ pc = "idle"
    /\ args = NoArgs
    /\ built = NotBuilt
    /\ fsOps = <<>>
    /\ connLog = <<>>
    /\ result = NoResult
    /\ kp = NoArc
    /\ inflight = {}
    /\ signLog = <<>>
    /\ handshakes = 0

InitConn == fs \in Filesystems /\ ConnIdle /\ ProvIdle

InitProv == fs = [p \in Paths |-> NoEntry] /\ ConnIdle /\ ProvIdle

NextConn ==
    \/ \E d \in Opt(DomainInputs), s \in Opt(SeedInputs), j \in Opt(JwtInputs),
         c \in Opt(CredsInputs) : Call(d, s, j, c)
    \/ ConnectAnonymous
    \/ BuildOptions
    \/ ConnectWithOptions
    \/ \E n \in Nonces : SignBegin(n)
    \/ \E h \in inflight : SignEnd(h)
    \/ ConnectOk
    \/ ConnectFail
    \/ MakeContext

NextProv ==
    \/ \E p \in Callers, n \in Names, sub \in SubjectInputs, d \in DescriptionInputs :
         CallEnsureStream(p, n, sub, d)
    \/ \E p \in Callers, n \in Names, sub \in SubjectInputs :
         CallEnsureStatusStream(p, n, sub)
    \/ \E p \in Callers, n \in Names, sub \in SubjectInputs :
         CallEnsureNotifyStream(p, n, sub)
    \/ \E p \in Callers, n \in Names, h \in HistoryInputs :
         CallEnsureKvBucket(p, n, h)
    \/ \E p \in Callers : Fetch(p)
    \/ \E p \in Callers : Create(p)
    \/ \E p \in Callers : Return(p)

SpecConn == InitConn /\ [][NextConn]_vars
SpecProv == InitProv /\ [][NextProv]_vars

(***************************************************************************)
(* Properties of build_nats_options, resolve_jwt and get_seed (SpecConn)   *)
(***************************************************************************)
\* The two accepted combinations of present and absent inputs.
ValidCombination(s, j, c) ==
    \/ s.some /\ j.some /\ ~c.some
    \/ ~s.some /\ ~j.some /\ c.some

\* The call took the (Some(seed), Some(jwt), None) arm of build_nats_options.
TookSeedAndJwt ==
    built.done /\ args.seed.some /\ args.jwt.some /\ ~args.creds_path.some

\* C1: build_nats_options returns options only for (seed, jwt, no creds path) and
\* (no seed, no jwt, creds path); for each of the other six combinations of
\* present and absent inputs it returns an error, without options and without
\* having resolved anything.
C1_BuildAuthCombinations ==
    /\ pc = "idle" =>
       \A s \in Opt(SeedInputs), j \in Opt(JwtInputs), c \in Opt(CredsInputs) :
         LET r == build_nats_options(fs, s, j, c) IN
         /\ r.ok => ValidCombination(s, j, c)
         /\ r.ok => r.opts.mode = (IF c.some THEN "CredentialsFile" ELSE "SeedAndJwt")
         /\ ~ValidCombination(s, j, c) => ~r.ok /\ r.opts = NoOpts /\ r.ops = <<>>
    /\ built.done =>
         /\ built.ok => ValidCombination(args.seed, args.jwt, args.creds_path)
         /\ ~ValidCombination(args.seed, args.jwt, args.creds_path) =>
                ~built.ok /\ built.opts = NoOpts /\ fsOps = <<>> /\ pc = "failed"

\* All three inputs were given and the call has failed in build_nats_options.
C1_Witness ==
    /\ built.done /\ ~built.ok /\ pc = "failed"
    /\ args.seed.some /\ args.jwt.some /\ args.creds_path.some

C5_Scenario ==
    /\ TookSeedAndJwt
    /\ args.seed.val = LitSeed
    /\ args.jwt.val = JwtLit
    /\ Entry(fs, JwtLit).kind # "file"

\* C5 as stated: in the scenario build_nats_options returns the SeedAndJwt options
\* and no filesystem operation of any kind (read or metadata lookup) is performed.
C5_NoFilesystemAtAll ==
    C5_Scenario =>
        /\ built.ok /\ built.opts.mode = "SeedAndJwt"
        /\ fsOps = <<>>

\* C5, amended: in the scenario build_nats_options returns the SeedAndJwt options
\* made of the two inputs themselves and reads no file; the one filesystem
\* operation it performs is the metadata lookup of resolve_jwt on the JWT string.
C5_NoFileRead ==
    C5_Scenario =>
        /\ built.ok
        /\ built.opts = JwtOpts(JwtLit, [seed |-> LitSeed])
        /\ fsOps = <<MetaOp(JwtLit)>>
        /\ \A i \in 1..Len(fsOps) : fsOps[i].op # "read"

\* The scenario ran on a filesystem that has a file named like the seed.
C5_Witness ==
    /\ C5_Scenario
    /\ built.ok
    /\ Entry(fs, LitSeed).kind = "file"

\* What get_seed must return for an input it takes as a literal seed.
SeedTakenLiterally(s, k) ==
    /\ k.ops = <<>>
    /\ k.ok = (s \in ValidSeeds)
    /\ k.ok => k.val = [seed |-> s]

\* What get_seed must return for an input it takes as a path.
SeedReadFromPath(s, k) ==
    LET e == Entry(fs, s) IN
    /\ k.ops = <<ReadOp(s)>>
    /\ ~(e.kind = "file" /\ e.readable) => ~k.ok
    /\ e.kind = "file" /\ e.readable =>
         /\ k.ok = (e.contents \in ValidSeeds)
         /\ k.ok => k.val = [seed |-> e.contents]

\* C6 as stated, the length counted in characters: get_seed takes a string of 58
\* characters whose first is 'S' as the seed itself without file I/O, and reads
\* every other input as a path.
C6_GetSeedByCharacters ==
    built.seedCalls = 1 =>
        LET s == args.seed.val IN
        IF Len(s) = SeedLen /\ s[1] = "S"
        THEN SeedTakenLiterally(s, built.seedRes)
        ELSE SeedReadFromPath(s, built.seedRes)

\* C6, amended, the length counted in UTF-8 bytes: get_seed takes a string of 58
\* bytes whose first character is 'S' as the seed itself without file I/O, and
\* reads every other input as a path, failing when the path is unreadable.
C6_GetSeedByBytes ==
    built.seedCalls = 1 =>
        LET s == args.seed.val IN
        IF StrLen(s) = SeedLen /\ s[1] = "S"
        THEN SeedTakenLiterally(s, built.seedRes)
        ELSE SeedReadFromPath(s, built.seedRes)

\* get_seed ran on a literal seed that is also the name of a file, and on no I/O.
C6_Witness ==
    /\ built.seedCalls = 1
    /\ args.seed.val = LitSeed
    /\ Entry(fs, LitSeed).kind = "file"
    /\ built.seedRes.ok /\ built.seedRes.ops = <<>>

(***************************************************************************)
(* Properties of get_client_and_context (SpecConn)                         *)
(***************************************************************************)
AllAbsent == ~args.seed.some /\ ~args.jwt.some /\ ~args.creds_path.some

\* C8: a connection without authentication is attempted exactly when all three
\* inputs are absent; otherwise build_nats_options is evaluated before the one
\* connection attempt, which uses its options, and when it fails no connection
\* is attempted and the call returns an error.
C8_BuildBeforeConnect ==
    /\ Len(connLog) <= 1
    /\ \A i \in 1..Len(connLog) :
         /\ connLog[i].auth = NoOpts <=> AllAbsent
         /\ ~AllAbsent => built.done /\ built.ok /\ connLog[i].auth = built.opts
    /\ AllAbsent => ~built.done
    /\ built.done /\ ~built.ok =>
         connLog = <<>> /\ pc = "failed" /\ result = ErrResult
    /\ result.status = "ok" => Len(connLog) = 1

\* build_nats_options failed on an accepted combination (an unresolvable
\* credential) and the call is over.
C8_Witness ==
    /\ built.done /\ ~built.ok /\ pc = "failed"
    /\ ValidCombination(args.seed, args.jwt, args.creds_path)
    /\ connLog = <<>>

\* C10: with the SeedAndJwt options get_seed ran once, before the connection
\* attempt, and nothing touches the filesystem afterwards; every signature, made
\* or in flight, uses the key that get_seed returned, and the closure keeps its
\* own reference to the key whatever number of signing futures hold another.
C10_SharedSigningKey ==
    built.ok /\ built.opts.mode = "SeedAndJwt" =>
        /\ built.seedCalls = 1
        /\ fsOps = built.ops
        /\ built.opts.key = built.seedRes.val /\ built.opts.key # NoKey
        /\ kp.key = built.opts.key
        /\ kp.strong = 1 + Cardinality(inflight)
        /\ \A h \in inflight : h.key = built.opts.key
        /\ \A i \in 1..Len(signLog) : signLog[i].key = built.opts.key
        /\ handshakes = Cardinality(inflight) + Len(signLog)
        /\ handshakes > 0 => connLog # <<>>

\* After the call returned, a signature has been made and two more signing
\* futures are in flight at once.
C10_Witness ==
    /\ pc = "done"
    /\ Len(signLog) >= 1
    /\ Cardinality(inflight) = 2

(***************************************************************************)
(* Properties of the ensure helpers (SpecProv)                             *)
(***************************************************************************)
\* The resource a returned handle names, as the broker holds it now.
Held(h) ==
    IF h.kind = "stream" THEN IdIn(streams, h.name) ELSE IdIn(buckets, h.name)

\* Caller p's call started when a resource of its kind and name existed, and has
\* returned.
LaterCallReturned(p) == cpc[p] = "returned" /\ call[p].existedAt # 0

\* C2: a resource, once created, keeps its identity and its configuration through
\* every later step, and a call that starts when the resource of its name exists
\* returns a handle to that very resource, whatever subjects, description,
\* stream kind or history depth it asks for.
C2_Idempotent ==
    [][ /\ \A n \in DOMAIN streams : n \in DOMAIN streams' /\ streams'[n] = streams[n]
        /\ \A n \in DOMAIN buckets : n \in DOMAIN buckets' /\ buckets'[n] = buckets[n]
        /\ \A p \in Callers :
             (cpc'[p] = "returned" /\ call'[p].existedAt # 0) =>
                 /\ ret'[p].status = "ok"
                 /\ ret'[p].handle.name = call'[p].name
                 /\ ret'[p].handle.id = call'[p].existedAt
                 /\ call'[p].creates = 0
                 /\ IF call'[p].op \in StreamOps
                    THEN IdIn(streams', call'[p].name) = call'[p].existedAt
                    ELSE IdIn(buckets', call'[p].name) = call'[p].existedAt
      ]_vars

\* ensure_kv_bucket("links", 5) has returned the bucket created with history 20.
C2_Witness ==
    \E p \in Callers :
        /\ LaterCallReturned(p)
        /\ call[p].op = "ensure_kv_bucket" /\ call[p].name = "links" /\ call[p].history = 5
        /\ buckets["links"].cfg.history = 20
        /\ ret[p].handle.id = buckets["links"].id

\* C3: in every interleaving, a call that returned an error has created nothing
\* (no resource of the broker was made by it), a call that returned a handle
\* names a resource of its own kind and name that the broker holds, and every
\* resource the broker holds is complete: it carries the whole configuration of
\* the call that made it.
C3_AllOrNothing ==
    /\ \A p \in Callers :
         /\ ret[p].status = "err" =>
              /\ ~call[p].created
              /\ \A n \in DOMAIN streams : streams[n].by # call[p].seq
              /\ \A n \in DOMAIN buckets : buckets[n].by # call[p].seq
         /\ ret[p].status = "ok" =>
              /\ ret[p].handle.id # 0
              /\ ret[p].handle.name = call[p].name
              /\ ret[p].handle.kind = (IF call[p].op \in StreamOps THEN "stream" ELSE "kv")
              /\ Held(ret[p].handle) = ret[p].handle.id
         /\ call[p].created => ret[p].status = "ok"
    /\ \A n \in DOMAIN streams : streams[n].id # 0 /\ streams[n].cfg.name = n
    /\ \A n \in DOMAIN buckets : buckets[n].id # 0 /\ buckets[n].cfg.bucket = n

\* Two calls raced on an absent name: one returned an error, the other the handle.
C3_Witness ==
    \E p, q \in Callers :
        /\ call[p].name = call[q].name /\ call[p].op = call[q].op
        /\ call[p].existedAt = 0 /\ call[q].existedAt = 0
        /\ ret[p].status = "err"
        /\ ret[q].status = "ok" /\ call[q].created

\* C7: every stream the broker holds was created with the canonical configuration
\* of the helper that created it, under the name and subjects that call gave.
C7_CanonicalSpecs ==
    \A n \in DOMAIN streams :
        LET r == streams[n]
            c == r.cfg
        IN
        /\ c.name = n
        /\ c.subjects = r.req.subjects
        /\ c.num_replicas = 1
        /\ c.storage = "File"
        /\ c.allow_rollup = FALSE
        /\ r.op \in StreamOps
        /\ r.op = "ensure_stream" =>
             /\ c.retention = "WorkQueue"
             /\ c.max_age = DEFAULT_EXPIRY_TIME
             /\ c.description = r.req.description
        /\ r.op = "ensure_status_stream" =>
             /\ c.retention = "Limits"
             /\ c.max_messages_per_subject = 10
             /\ c.allow_direct = TRUE
             /\ c.max_age = ZeroDuration
        /\ r.op = "ensure_notify_stream" =>
             /\ c.retention = "Interest"
             /\ c.max_age = DEFAULT_EXPIRY_TIME

\* ensure_status_stream("links", ["wadm.status.>"]) created the stream.
C7_Witness ==
    /\ "links" \in DOMAIN streams
    /\ streams["links"].op = "ensure_status_stream"
    /\ streams["links"].cfg.subjects = <<"wadm.status.>">>

\* C9: a call makes at most one fetch and then at most one create request, and a
\* call whose create request the broker rejected returns an error.
C9_NoRetry ==
    \A p \in Callers :
        /\ call[p].fetches <= 1
        /\ call[p].creates <= 1
        /\ call[p].creates <= call[p].fetches
        /\ cpc[p] = "creating" => call[p].fetches = 1 /\ call[p].creates = 0
        /\ call[p].rejected => cpc[p] = "returned" /\ ret[p] = ErrRet

\* Two calls found the name absent, both asked for the create, and the one the
\* broker rejected has returned an error while the resource exists.
C9_Witness ==
    \E p, q \in Callers :
        /\ p # q
        /\ call[p].existedAt = 0 /\ call[q].existedAt = 0
        /\ call[p].op = "ensure_kv_bucket" /\ call[q].op = "ensure_kv_bucket"
        /\ call[p].creates = 1 /\ call[q].creates = 1
        /\ call[p].rejected /\ ret[p] = ErrRet
        /\ call[p].name \in DOMAIN buckets

====
